---- MODULE Spec2Model ----
(***************************************************************************)
(* A model of the stuff library (zstewar1/stuff): the fungible Stuff       *)
(* class of stuff/stuff.py.  Every instance is an entry of a heap: cls[i]  *)
(* is type(i) and units[i] is i._granular_units.  Each action is one call  *)
(* of a public method or operator, taken as a whole (the library is        *)
(* synchronous); `last` records the call, its outcome and the units before *)
(* it, so that the effect of a call can be stated as a state predicate.    *)
(* The instances of UniqueStuff (stuff/unique_stuff.py) have a heap of     *)
(* their own: ucls[i] is type(i), _units[i] is the set i._units, and       *)
(* `ulast` records the last call made on them.  The registry of stuff.py   *)
(* is `_REGISTRY` with its lock `_REGISTRY_LOCK` (the thread that holds    *)
(* it, 0 when it is free); `types` lists the class statements executed so  *)
(* far and `th` is where each thread stands in MetaStuff.__init__ or in    *)
(* get_stuff.                                                              *)
(***************************************************************************)
EXTENDS Integers, Sequences, FiniteSets, TLC

VARIABLES units, cls, last, _units, ucls, ulast, _REGISTRY, _REGISTRY_LOCK, types, th

vars == <<units, cls, last, _units, ucls, ulast, _REGISTRY, _REGISTRY_LOCK, types, th>>

rvars == <<_REGISTRY, _REGISTRY_LOCK, types, th>>

uvars == <<_units, ucls, ulast>>

fvars == <<units, cls, last>>

(* Bounds of the model. *)
MaxInst == 3
MaxTotal == 6
MaxPieces == 2

(***************************************************************************)
(* The class attributes of a stuff type.  MyStuff is the type of the       *)
(* module's documentation,                                                 *)
(*   class MyStuff(Stuff, min_amount=6, granularity=3)                     *)
(* and every other type keeps the defaults of Stuff.                       *)
(***************************************************************************)
min_amount(t) == IF t = "MyStuff" THEN 6 ELSE 1

granularity(t) == IF t = "MyStuff" THEN 3 ELSE 1

(* math.ceil(cls.min_amount / cls.granularity) *)
least_allowed_units(t) == (min_amount(t) + granularity(t) - 1) \div granularity(t)

(***************************************************************************)
(* Arguments.  A Python argument is an int (isint, with its value) or a    *)
(* value of another type (3.0, 'abc'), for which isinstance(x, int) fails. *)
(***************************************************************************)
Int_(n) == [isint |-> TRUE, val |-> n]

NotInt == [isint |-> FALSE, val |-> 0]

IntArgs == -1 .. (MaxTotal + 1)

Inputs == {Int_(n) : n \in IntArgs} \cup {NotInt}

PieceInputs == {Int_(n) : n \in -1 .. MaxPieces} \cup {NotInt}

NoArg == Int_(0)

RECURSIVE SumSeq(_)
SumSeq(s) == IF s = <<>> THEN 0 ELSE Head(s) + SumSeq(Tail(s))

(***************************************************************************)
(* The result of a call: the heap after it, the exception it raised        *)
(* ("none" when it returned), the instances it returned (ret) and the      *)
(* number it returned (val).                                               *)
(***************************************************************************)
Ok(us, cs, ret, val) == [units |-> us, cls |-> cs, exc |-> "none", ret |-> ret, val |-> val]

Raise(us, cs, e) == [units |-> us, cls |-> cs, exc |-> e, ret |-> <<>>, val |-> 0]

(* type(other): other = 0 stands for an operand that is no Stuff (the int 2). *)
TypeOf(cs, o) == IF o = 0 THEN "int" ELSE cs[o]

(* Stuff.amount *)
amount(us, cs, self) == us[self] * granularity(cs[self])

(* Stuff.add_units without its test of the sign. *)
add_units_any_sign(us, cs, self, x) ==
  IF ~x.isint THEN Raise(us, cs, "TypeError")
  ELSE LET new == [us EXCEPT ![self] = @ + x.val]
       IN Ok(new, cs, <<>>, new[self])

(* Stuff.add_units *)
add_units(us, cs, self, x) ==
  IF ~x.isint THEN Raise(us, cs, "TypeError")
  ELSE IF x.val < 0 THEN Raise(us, cs, "ValueError")
  ELSE LET new == [us EXCEPT ![self] = @ + x.val]
       IN Ok(new, cs, <<>>, new[self])

(* Stuff.add *)
add(us, cs, self, x) ==
  IF ~x.isint THEN Raise(us, cs, "TypeError")
  ELSE IF x.val % granularity(cs[self]) # 0 THEN Raise(us, cs, "ValueError")
  ELSE LET r == add_units(us, cs, self, Int_(x.val \div granularity(cs[self])))
       IN IF r.exc # "none" THEN r
          ELSE Ok(r.units, r.cls, <<>>, amount(r.units, r.cls, self))

(* Stuff.__init__: the new instance is the next entry of the heap; when the
   constructor raises, no instance comes to exist. *)
__init__(us, cs, t, x, use_units) ==
  LET self == Len(us) + 1
      us0 == Append(us, 0)
      cs0 == Append(cs, t)
      r == IF use_units THEN add_units(us0, cs0, self, x) ELSE add(us0, cs0, self, x)
  IN IF r.exc # "none" THEN Raise(us, cs, r.exc)
     ELSE Ok(r.units, r.cls, <<self>>, 0)

(* Stuff._with_units *)
_with_units(us, cs, self, n) == __init__(us, cs, cs[self], Int_(n), TRUE)

(* Stuff.remove_units *)
remove_units(us, cs, self, x) ==
  IF ~x.isint THEN Raise(us, cs, "TypeError")
  ELSE IF x.val < 0 THEN Raise(us, cs, "ValueError")
  ELSE IF x.val > us[self] THEN Raise(us, cs, "ValueError")
  ELSE LET remaining == us[self] - x.val
       IN IF remaining # 0 /\ remaining < least_allowed_units(cs[self])
          THEN Raise(us, cs, "ValueError")
          ELSE Ok([us EXCEPT ![self] = remaining], cs, <<>>, remaining)

(* Stuff.remove: after its two checks the method evaluates the name
   `granularity`, which is neither a local nor a global of the module. *)
remove(us, cs, self, x) ==
  IF ~x.isint THEN Raise(us, cs, "TypeError")
  ELSE IF x.val % granularity(cs[self]) # 0 THEN Raise(us, cs, "ValueError")
  ELSE Raise(us, cs, "NameError")

(* Stuff.clear_units *)
clear_units(us, cs, self) == Ok([us EXCEPT ![self] = 0], cs, <<>>, us[self])

(* Stuff.clear with the amount read after the store. *)
clear_returns_amount_after(us, cs, self) ==
  LET us1 == [us EXCEPT ![self] = 0]
  IN Ok(us1, cs, <<>>, amount(us1, cs, self))

(* Stuff.clear *)
clear(us, cs, self) == Ok([us EXCEPT ![self] = 0], cs, <<>>, amount(us, cs, self))

(* The class a type is derived from.  WrongTypeSubtype is the subclass of
   IntegralStuff the tests define; every other type derives from Stuff. *)
base(t) == IF t = "WrongTypeSubtype" THEN "IntegralStuff" ELSE "Stuff"

(* isinstance(o, t) for an operand o *)
isinstance(cs, o, t) == o # 0 /\ (cs[o] = t \/ base(cs[o]) = t)

(* Stuff.combine with isinstance(other, type(self)) for its test of the
   types. *)
combine_accepts_subtypes(us, cs, self, other) ==
  IF ~isinstance(cs, other, cs[self]) THEN Raise(us, cs, "TypeError")
  ELSE LET total_units == us[self] + us[other]
           us1 == [us EXCEPT ![self] = total_units]
           us2 == [us1 EXCEPT ![other] = 0]
       IN Ok(us2, cs, <<self>>, 0)

(* Stuff.combine with the units of other left in place. *)
combine_keeps_other(us, cs, self, other) ==
  IF TypeOf(cs, self) # TypeOf(cs, other) THEN Raise(us, cs, "TypeError")
  ELSE Ok([us EXCEPT ![self] = us[self] + us[other]], cs, <<self>>, 0)

(* Stuff.combine: the tuple assignment stores into self first and into other
   second. *)
combine(us, cs, self, other) ==
  IF TypeOf(cs, self) # TypeOf(cs, other) THEN Raise(us, cs, "TypeError")
  ELSE LET total_units == us[self] + us[other]
           us1 == [us EXCEPT ![self] = total_units]
           us2 == [us1 EXCEPT ![other] = 0]
       IN Ok(us2, cs, <<self>>, 0)

(* Stuff.separate_units with self left as it was. *)
separate_units_keeps_self(us, cs, self, x) ==
  IF ~x.isint THEN Raise(us, cs, "TypeError")
  ELSE IF x.val < 0 THEN Raise(us, cs, "ValueError")
  ELSE IF x.val > us[self] THEN Raise(us, cs, "ValueError")
  ELSE IF x.val < least_allowed_units(cs[self]) THEN Raise(us, cs, "ValueError")
  ELSE LET remaining == us[self] - x.val
       IN IF remaining # 0 /\ remaining < least_allowed_units(cs[self])
          THEN Raise(us, cs, "ValueError")
          ELSE _with_units(us, cs, self, x.val)

(* Stuff.separate_units with the new stuff made before the test of what is
   left behind. *)
separate_units_makes_stuff_first(us, cs, self, x) ==
  IF ~x.isint THEN Raise(us, cs, "TypeError")
  ELSE IF x.val < 0 THEN Raise(us, cs, "ValueError")
  ELSE IF x.val > us[self] THEN Raise(us, cs, "ValueError")
  ELSE IF x.val < least_allowed_units(cs[self]) THEN Raise(us, cs, "ValueError")
  ELSE LET remaining == us[self] - x.val
           new_stuff == _with_units(us, cs, self, x.val)
       IN IF remaining # 0 /\ remaining < least_allowed_units(cs[self])
          THEN Raise(new_stuff.units, new_stuff.cls, "ValueError")
          ELSE Ok([new_stuff.units EXCEPT ![self] = remaining], new_stuff.cls,
                  new_stuff.ret, 0)

(* Stuff.separate_units *)
separate_units(us, cs, self, x) ==
  IF ~x.isint THEN Raise(us, cs, "TypeError")
  ELSE IF x.val < 0 THEN Raise(us, cs, "ValueError")
  ELSE IF x.val > us[self] THEN Raise(us, cs, "ValueError")
  ELSE IF x.val < least_allowed_units(cs[self]) THEN Raise(us, cs, "ValueError")
  ELSE LET remaining == us[self] - x.val
       IN IF remaining # 0 /\ remaining < least_allowed_units(cs[self])
          THEN Raise(us, cs, "ValueError")
          ELSE LET new_stuff == _with_units(us, cs, self, x.val)
               IN Ok([new_stuff.units EXCEPT ![self] = remaining], new_stuff.cls,
                     new_stuff.ret, 0)

(* Stuff.separate *)
separate(us, cs, self, x) ==
  IF ~x.isint THEN Raise(us, cs, "TypeError")
  ELSE IF x.val % granularity(cs[self]) # 0 THEN Raise(us, cs, "ValueError")
  ELSE separate_units(us, cs, self, Int_(x.val \div granularity(cs[self])))

(* The loop of Stuff.divide: for i in range(pieces), with new_stuff the
   instances appended so far. *)
RECURSIVE divide_loop(_, _, _, _, _, _, _, _)
divide_loop(us, cs, self, i, pieces, base_units_per_piece, remaining_units, new_stuff) ==
  IF i >= pieces THEN Ok(us, cs, new_stuff, 0)
  ELSE LET units_for_piece == IF i < remaining_units
                              THEN base_units_per_piece + 1
                              ELSE base_units_per_piece
           piece == _with_units(us, cs, self, units_for_piece)
       IN divide_loop(piece.units, piece.cls, self, i + 1, pieces,
                      base_units_per_piece, remaining_units, new_stuff \o piece.ret)

(* Stuff.divide with the loop's test i < remaining_units off by one. *)
divide_extra_unit(us, cs, self, x) ==
  IF ~x.isint THEN Raise(us, cs, "TypeError")
  ELSE IF x.val <= 0 THEN Raise(us, cs, "ValueError")
  ELSE LET base_units_per_piece == us[self] \div x.val
           remaining_units == us[self] % x.val
       IN IF base_units_per_piece < least_allowed_units(cs[self])
          THEN Raise(us, cs, "ValueError")
          ELSE LET r == divide_loop(us, cs, self, 0, x.val, base_units_per_piece,
                                    remaining_units + 1, <<>>)
               IN Ok([r.units EXCEPT ![self] = 0], r.cls, r.ret, 0)

(* Stuff.divide with the minimum of the base class in place of the type's. *)
divide_default_minimum(us, cs, self, x) ==
  IF ~x.isint THEN Raise(us, cs, "TypeError")
  ELSE IF x.val <= 0 THEN Raise(us, cs, "ValueError")
  ELSE LET base_units_per_piece == us[self] \div x.val
           remaining_units == us[self] % x.val
       IN IF base_units_per_piece < 1
          THEN Raise(us, cs, "ValueError")
          ELSE LET r == divide_loop(us, cs, self, 0, x.val, base_units_per_piece,
                                    remaining_units, <<>>)
               IN Ok([r.units EXCEPT ![self] = 0], r.cls, r.ret, 0)

(* Stuff.divide *)
divide(us, cs, self, x) ==
  IF ~x.isint THEN Raise(us, cs, "TypeError")
  ELSE IF x.val <= 0 THEN Raise(us, cs, "ValueError")
  ELSE LET base_units_per_piece == us[self] \div x.val
           remaining_units == us[self] % x.val
       IN IF base_units_per_piece < least_allowed_units(cs[self])
          THEN Raise(us, cs, "ValueError")
          ELSE LET r == divide_loop(us, cs, self, 0, x.val, base_units_per_piece,
                                    remaining_units, <<>>)
               IN Ok([r.units EXCEPT ![self] = 0], r.cls, r.ret, 0)

(* Stuff.__add__: NotImplemented, for which no reflected method exists, ends
   in Python's TypeError. *)
__add__(us, cs, self, other) ==
  IF TypeOf(cs, self) # TypeOf(cs, other) THEN Raise(us, cs, "TypeError")
  ELSE combine(us, cs, self, other)

(* Stuff.__sub__ *)
__sub__(us, cs, self, x) ==
  IF ~x.isint THEN Raise(us, cs, "TypeError")
  ELSE separate(us, cs, self, x)

(* Stuff.__floordiv__ *)
__floordiv__(us, cs, self, x) ==
  IF ~x.isint THEN Raise(us, cs, "TypeError")
  ELSE divide(us, cs, self, x)

(* s / pieces: Stuff defines __floordiv__ and no __truediv__, and no int or
   other operand has a reflected method that takes a Stuff, so Python
   raises TypeError for every operand. *)
__truediv__(us, cs, self, x) == Raise(us, cs, "TypeError")

(* Stuff.__mod__ with > for its comparison. *)
__mod__above_minimum(us, cs, self, x) ==
  IF ~x.isint THEN Raise(us, cs, "TypeError")
  ELSE IF x.val <= 0 THEN Raise(us, cs, "ValueError")
  ELSE LET base_units_per_piece == us[self] \div x.val
       IN Ok(us, cs, <<>>,
             IF base_units_per_piece > least_allowed_units(cs[self]) THEN 1 ELSE 0)

(* Stuff.__mod__: NotImplemented ends in Python's TypeError; the bool
   returned is given as the int it is, True as 1 and False as 0. *)
__mod__(us, cs, self, x) ==
  IF ~x.isint THEN Raise(us, cs, "TypeError")
  ELSE IF x.val <= 0 THEN Raise(us, cs, "ValueError")
  ELSE LET base_units_per_piece == us[self] \div x.val
       IN Ok(us, cs, <<>>,
             IF base_units_per_piece >= least_allowed_units(cs[self]) THEN 1 ELSE 0)

(* Stuff.__lshift__ *)
__lshift__(us, cs, self, other) ==
  IF TypeOf(cs, self) # TypeOf(cs, other) THEN Raise(us, cs, "TypeError")
  ELSE combine(us, cs, self, other)

(* Stuff.__rshift__ with the operands of combine in the order it was given
   them. *)
__rshift__into_self(us, cs, self, other) ==
  IF TypeOf(cs, self) # TypeOf(cs, other) THEN Raise(us, cs, "TypeError")
  ELSE combine(us, cs, self, other)

(* Stuff.__rshift__ *)
__rshift__(us, cs, self, other) ==
  IF TypeOf(cs, self) # TypeOf(cs, other) THEN Raise(us, cs, "TypeError")
  ELSE combine(us, cs, other, self)

(***************************************************************************)
(* UniqueStuff.  An argument is an iterable of items, given as the         *)
(* sequence of what it yields, or a value that cannot be iterated; set()   *)
(* of it is the set of the items it yields.  ms is the heap of member      *)
(* sets, cs the types.                                                     *)
(***************************************************************************)
MaxItems == 3

MaxUniqueInst == 2

MaxMembers == 3

Items == 1 .. MaxItems

Iter_(s) == [iter |-> TRUE, val |-> s]

NotIterable == [iter |-> FALSE, val |-> <<>>]

(* The items of a set in a sequence, as an iterable yields them. *)
RECURSIVE SeqOf(_)
SeqOf(S) ==
  IF S = {} THEN <<>>
  ELSE LET i == CHOOSE j \in S : \A k \in S : j <= k
       IN <<i>> \o SeqOf(S \ {i})

(* The arguments: the items of every set, an iterable that yields one item
   twice, and a value that is no iterable. *)
UnitInputs ==
  {Iter_(SeqOf(S)) : S \in SUBSET Items} \cup {Iter_(<<i, i>>) : i \in Items}
    \cup {NotIterable}

RECURSIVE SumCard(_)
SumCard(ms) == IF ms = <<>> THEN 0 ELSE Cardinality(Head(ms)) + SumCard(Tail(ms))

NoUnits == Iter_(<<>>)

(* UniqueStuff.unit_type: None for UniqueStuff itself; SizedStuff is a
   subclass whose unit_type is a class Sized derived from ISized, and every
   other subclass has unit_type = object. *)
unit_type(t) ==
  IF t = "UniqueStuff" THEN "None"
  ELSE IF t = "SizedStuff" THEN "Sized"
  ELSE "object"

(* The items with an odd number are instances of Sized, the others are
   plain objects. *)
IsSized(unit) == unit % 2 = 1

(* isinstance(unit, cls.unit_type) *)
IsUnitType(unit, ut) == ut = "object" \/ (ut = "Sized" /\ IsSized(unit))

(* unit.__stuff_size__() of an instance of Sized *)
__stuff_size__(unit) == unit

(* The attribute unit_size, which neither UniqueStuff nor Stuff defines:
   PlainStuff is a subclass with unit_type = object and unit_size = 2. *)
has_unit_size(t) == t = "PlainStuff"

unit_size(t) == IF has_unit_size(t) THEN 2 ELSE 0

UOk(ms, cs, ret) ==
  [units |-> ms, cls |-> cs, exc |-> "none", ret |-> ret, val |-> 0]

(* a call that returns a number *)
UVal(ms, cs, val) ==
  [units |-> ms, cls |-> cs, exc |-> "none", ret |-> <<>>, val |-> val]

URaise(ms, cs, e) ==
  [units |-> ms, cls |-> cs, exc |-> e, ret |-> <<>>, val |-> 0]

(* set(units) *)
set(s) == {s[i] : i \in DOMAIN s}

(* UniqueStuff._convert_units.  The raise inside the loop formats
   self.unit_type, and a classmethod has no name self. *)
_convert_units(t, x) ==
  IF ~x.iter THEN [exc |-> "TypeError", val |-> {}]
  ELSE IF /\ unit_type(t) # "None"
          /\ \E unit \in set(x.val) : ~IsUnitType(unit, unit_type(t))
       THEN [exc |-> "NameError", val |-> {}]
  ELSE [exc |-> "none", val |-> set(x.val)]

(* UniqueStuff.__init__ *)
UniqueStuff__init__(ms, cs, t, x) ==
  LET c == _convert_units(t, x)
  IN IF c.exc # "none" THEN URaise(ms, cs, c.exc)
     ELSE UOk(Append(ms, c.val), Append(cs, t), <<Len(ms) + 1>>)

(* Stuff._with_units, inherited by UniqueStuff: it calls
   type(self)(amount=units, use_units=True), keywords that
   UniqueStuff.__init__(self, units=()) does not take. *)
UniqueStuff_with_units(ms, cs, self, us) == URaise(ms, cs, "TypeError")

(* UniqueStuff.add with the given units in place of the union. *)
UniqueStuff_add_replaces(ms, cs, self, x) ==
  LET c == _convert_units(cs[self], x)
  IN IF c.exc # "none" THEN URaise(ms, cs, c.exc)
     ELSE UOk([ms EXCEPT ![self] = c.val], cs, <<>>)

(* UniqueStuff.add *)
UniqueStuff_add(ms, cs, self, x) ==
  LET c == _convert_units(cs[self], x)
  IN IF c.exc # "none" THEN URaise(ms, cs, c.exc)
     ELSE UOk([ms EXCEPT ![self] = @ \cup c.val], cs, <<>>)

(* a > b for two sets: a is a proper superset of b *)
ProperSuperset(a, b) == b \subseteq a /\ a # b

(* UniqueStuff.remove *)
UniqueStuff_remove(ms, cs, self, x) ==
  LET c == _convert_units(cs[self], x)
  IN IF c.exc # "none" THEN URaise(ms, cs, c.exc)
     ELSE IF ProperSuperset(c.val, ms[self]) THEN URaise(ms, cs, "ValueError")
     ELSE UOk([ms EXCEPT ![self] = @ \ c.val], cs, <<>>)

(* sum(unit.__stuff_size__() for unit in self._units) *)
RECURSIVE SumSizes(_)
SumSizes(S) ==
  IF S = {} THEN 0
  ELSE LET unit == CHOOSE u \in S : TRUE
       IN __stuff_size__(unit) + SumSizes(S \ {unit})

(* UniqueStuff.size: issubclass raises TypeError when its first argument is
   no class, as None is. *)
UniqueStuff_size(ms, cs, self) ==
  IF unit_type(cs[self]) = "None" THEN URaise(ms, cs, "TypeError")
  ELSE IF unit_type(cs[self]) # "Sized"
       THEN IF ~has_unit_size(cs[self]) THEN URaise(ms, cs, "AttributeError")
            ELSE UVal(ms, cs, Cardinality(ms[self]) * unit_size(cs[self]))
  ELSE UVal(ms, cs, SumSizes(ms[self]))

(* UniqueStuff.clear *)
UniqueStuff_clear(ms, cs, self) == UOk([ms EXCEPT ![self] = {}], cs, <<>>)

UTypeOf(cs, o) == IF o = 0 THEN "int" ELSE cs[o]

(* UniqueStuff.put: the tuple assignment stores into self first and into
   other second. *)
UniqueStuff_put(ms, cs, self, other) ==
  IF UTypeOf(cs, self) # UTypeOf(cs, other) THEN URaise(ms, cs, "TypeError")
  ELSE LET combined == ms[self] \cup ms[other]
           ms1 == [ms EXCEPT ![self] = combined]
           ms2 == [ms1 EXCEPT ![other] = {}]
       IN UOk(ms2, cs, <<self>>)

(* UniqueStuff.combine: the new object is made before anything is stored. *)
UniqueStuff_combine(ms, cs, self, other) ==
  IF UTypeOf(cs, self) # UTypeOf(cs, other) THEN URaise(ms, cs, "TypeError")
  ELSE LET new_object == UniqueStuff_with_units(ms, cs, self, {})
       IN IF new_object.exc # "none" THEN new_object
          ELSE LET n == new_object.ret[1]
                   combined == ms[self] \cup ms[other]
                   ms1 == [new_object.units EXCEPT ![n] = combined]
                   ms2 == [ms1 EXCEPT ![self] = {}]
                   ms3 == [ms2 EXCEPT ![other] = {}]
               IN UOk(ms3, new_object.cls, <<n>>)

(* UniqueStuff.separate: the new stuff is made before self is stored. *)
UniqueStuff_separate(ms, cs, self, x) ==
  LET c == _convert_units(cs[self], x)
  IN IF c.exc # "none" THEN URaise(ms, cs, c.exc)
     ELSE IF ProperSuperset(c.val, ms[self]) THEN URaise(ms, cs, "ValueError")
     ELSE LET remaining == ms[self] \ c.val
              new_stuff == UniqueStuff_with_units(ms, cs, self, c.val)
          IN IF new_stuff.exc # "none" THEN new_stuff
             ELSE UOk([new_stuff.units EXCEPT ![self] = remaining], new_stuff.cls,
                      new_stuff.ret)

(* UniqueStuff.divide: its first statement reads the name Integral, which
   the module neither defines nor imports. *)
UniqueStuff_divide(ms, cs, self, x) == URaise(ms, cs, "NameError")

(***************************************************************************)
(* The state machine.  A caller makes one call at a time: the call acts on *)
(* the heap and leaves its record in `last` (the call, the type it was     *)
(* made on, its arguments and outcome, and the units before it); the       *)
(* caller then goes on (Continue) to its next call.  The heap is bounded:  *)
(* a call that would make the units exceed MaxTotal is left out unless it  *)
(* adds none.                                                              *)
(***************************************************************************)
Idle == [op |-> "idle", typ |-> "none", self |-> 0, other |-> 0, arg |-> NoArg,
         uu |-> FALSE, exc |-> "none", ret |-> <<>>, val |-> 0, pre |-> <<>>]

Call(op, typ, self, other, arg, uu, r) ==
  /\ last.op = "idle"
  /\ Len(r.units) <= MaxInst
  /\ SumSeq(r.units) <= MaxTotal \/ SumSeq(r.units) <= SumSeq(units)
  /\ units' = r.units
  /\ cls' = r.cls
  /\ last' = [op |-> op, typ |-> typ, self |-> self, other |-> other, arg |-> arg,
              uu |-> uu, exc |-> r.exc, ret |-> r.ret, val |-> r.val, pre |-> units]
  /\ UNCHANGED uvars
  /\ UNCHANGED rvars

Insts == 1 .. Len(units)

(* The other operand of a binary operation: an instance, or 0 for a value
   that is no Stuff. *)
Others == 0 .. Len(units)

(***************************************************************************)
(* The registry.  A class statement (DefineType) runs MetaStuff.__init__   *)
(* in a thread: the checks of the class attributes, which touch the new    *)
(* class only, and then, for a named type, the block under the lock, one   *)
(* step for each of acquire, `name in _REGISTRY`, the store or the raise,  *)
(* and release.  get_stuff is acquire, read, release.  A type is entry i   *)
(* of `types`: its name and what became of its definition ("defining",     *)
(* "ok", "invalid" for a failed check of the attributes, "duplicate" for   *)
(* the TypeError under the lock) with the exception its statement ended    *)
(* in, the min_amount and granularity it was given, and `own`: whether    *)
(* its statement gave a name attribute of its own.  _REGISTRY[n] is        *)
(* the type stored under n, 0 when n is no key.                            *)
(***************************************************************************)
MaxThreads == 2

MaxTypes == 2

Threads == 1 .. MaxThreads

Names == {"A", "B"}

Str_(s) == [kind |-> "str", val |-> s]

None_ == [kind |-> "None", val |-> ""]

NotStr == [kind |-> "other", val |-> ""]

(* The class attributes a class statement gives: min_amount and
   granularity (an inherited value is a checked one), and name, which is
   inherited from the base when the statement gives none. *)
AttrInputs == {Int_(0), Int_(1), NotInt}

(* min_amount and granularity together: both good, or one of them bad. *)
Configurations ==
  {<<Int_(1), Int_(1)>>} \cup {<<a, Int_(1)>> : a \in AttrInputs}
    \cup {<<Int_(1), a>> : a \in AttrInputs}


Inherited == [kind |-> "inherited", val |-> ""]

NameInputs == {Str_(n) : n \in Names} \cup {None_, NotStr, Inherited}

(* The bodies of the class statements: good attributes with every name, and
   every configuration under the name A. *)
ClassStatements ==
  {[min_amount |-> Int_(1), granularity |-> Int_(1), name |-> nm] : nm \in NameInputs}
    \cup {[min_amount |-> a[1], granularity |-> a[2], name |-> Str_("A")] :
            a \in Configurations}

(* self.name of a new class with the base b (0 for Stuff, whose name is
   None) *)
name_of(ts, b, nm) ==
  IF nm # Inherited THEN nm
  ELSE IF b = 0 THEN None_ ELSE ts[b].name

(* MetaStuff.__init__ without its tests of the values of min_amount and
   granularity. *)
check_attributes_types_only(ma, g, nm) ==
  IF ~ma.isint THEN "TypeError"
  ELSE IF ~g.isint THEN "TypeError"
  ELSE IF nm # None_ /\ nm.kind # "str" THEN "TypeError"
  ELSE "none"

(* MetaStuff.__init__ up to the registration: the exception raised *)
check_attributes(ma, g, nm) ==
  IF ~ma.isint THEN "TypeError"
  ELSE IF ~g.isint THEN "TypeError"
  ELSE IF nm # None_ /\ nm.kind # "str" THEN "TypeError"
  ELSE IF ma.val < 1 THEN "ValueError"
  ELSE IF g.val < 1 THEN "ValueError"
  ELSE "none"

(* An acquire that does not wait for the lock. *)
can_acquire_held_lock(lock, t) == TRUE

(* _REGISTRY.get(name) answering None for every name. *)
get_nothing(reg, name) == 0

(* threading.RLock.acquire returns at once when the lock is free or held
   by the calling thread. *)
can_acquire(lock, t) == lock = 0 \/ lock = t

(* _REGISTRY.get(name) *)
get(reg, name) == reg[name]

ThreadIdle == [pc |-> "idle", typ |-> 0, name |-> "", val |-> 0]

UniqueIdle == [op |-> "idle", self |-> 0, other |-> 0, arg |-> NoUnits,
               exc |-> "none", ret |-> <<>>, val |-> 0, pre |-> <<>>]

UniqueCall(op, self, other, arg, r) ==
  /\ ulast.op = "idle"
  /\ Len(r.units) <= MaxUniqueInst
  /\ SumCard(r.units) <= MaxMembers
  /\ _units' = r.units
  /\ ucls' = r.cls
  /\ ulast' = [op |-> op, self |-> self, other |-> other, arg |-> arg,
               exc |-> r.exc, ret |-> r.ret, val |-> r.val, pre |-> _units]
  /\ UNCHANGED fvars
  /\ UNCHANGED rvars

UniqueInsts == 1 .. Len(_units)

UniqueOthers == 0 .. Len(_units)

Init ==
  /\ units = <<>>
  /\ cls = <<>>
  /\ last = Idle
  /\ _units = <<>>
  /\ ucls = <<>>
  /\ ulast = UniqueIdle
  /\ _REGISTRY = [n \in Names |-> 0]
  /\ _REGISTRY_LOCK = 0
  /\ types = <<>>
  /\ th = [t \in Threads |-> ThreadIdle]

Continue ==
  /\ last.op # "idle"
  /\ last' = Idle
  /\ UNCHANGED <<units, cls>>
  /\ UNCHANGED uvars
  /\ UNCHANGED rvars

(* The types whose instances the fungible specification constructs. *)
SpecTypes == {"MyStuff"}

(* t(amount) and t(amount, use_units=True).  A caller works with one of the
   two variants: the heaps share nothing. *)
Construct ==
  /\ last.op = "idle"
  /\ ulast.op = "idle"
  /\ _units = <<>>
  /\ \E t \in SpecTypes, x \in Inputs, uu \in BOOLEAN :
       Call("__init__", t, 0, 0, x, uu, __init__(units, cls, t, x, uu))

AddUnits ==
  \E self \in Insts, x \in Inputs :
    Call("add_units", cls[self], self, 0, x, TRUE, add_units(units, cls, self, x))

Add ==
  \E self \in Insts, x \in Inputs :
    Call("add", cls[self], self, 0, x, FALSE, add(units, cls, self, x))

RemoveUnits ==
  \E self \in Insts, x \in Inputs :
    Call("remove_units", cls[self], self, 0, x, TRUE, remove_units(units, cls, self, x))

Remove ==
  \E self \in Insts, x \in Inputs :
    Call("remove", cls[self], self, 0, x, FALSE, remove(units, cls, self, x))

ClearUnits ==
  \E self \in Insts :
    Call("clear_units", cls[self], self, 0, NoArg, TRUE, clear_units(units, cls, self))

Clear ==
  \E self \in Insts :
    Call("clear", cls[self], self, 0, NoArg, FALSE, clear(units, cls, self))

Combine ==
  \E self \in Insts, other \in Others :
    Call("combine", cls[self], self, other, NoArg, FALSE, combine(units, cls, self, other))

SeparateUnits ==
  \E self \in Insts, x \in Inputs :
    Call("separate_units", cls[self], self, 0, x, TRUE, separate_units(units, cls, self, x))

Separate ==
  \E self \in Insts, x \in Inputs :
    Call("separate", cls[self], self, 0, x, FALSE, separate(units, cls, self, x))

Divide ==
  \E self \in Insts, x \in PieceInputs :
    Call("divide", cls[self], self, 0, x, FALSE, divide(units, cls, self, x))

OpAdd ==
  \E self \in Insts, other \in Others :
    Call("__add__", cls[self], self, other, NoArg, FALSE, __add__(units, cls, self, other))

OpSub ==
  \E self \in Insts, x \in Inputs :
    Call("__sub__", cls[self], self, 0, x, FALSE, __sub__(units, cls, self, x))

OpFloorDiv ==
  \E self \in Insts, x \in PieceInputs :
    Call("__floordiv__", cls[self], self, 0, x, FALSE, __floordiv__(units, cls, self, x))

OpTrueDiv ==
  \E self \in Insts, x \in PieceInputs :
    Call("__truediv__", cls[self], self, 0, x, FALSE, __truediv__(units, cls, self, x))

OpMod ==
  \E self \in Insts, x \in PieceInputs :
    Call("__mod__", cls[self], self, 0, x, FALSE, __mod__(units, cls, self, x))

OpLShift ==
  \E self \in Insts, other \in Others :
    Call("__lshift__", cls[self], self, other, NoArg, FALSE, __lshift__(units, cls, self, other))

OpRShift ==
  \E self \in Insts, other \in Others :
    Call("__rshift__", cls[self], self, other, NoArg, FALSE, __rshift__(units, cls, self, other))

Next ==
  \/ Construct
  \/ AddUnits
  \/ Add
  \/ RemoveUnits
  \/ Remove
  \/ ClearUnits
  \/ Clear
  \/ Combine
  \/ SeparateUnits
  \/ Separate
  \/ Divide
  \/ OpAdd
  \/ OpSub
  \/ OpFloorDiv
  \/ OpTrueDiv
  \/ OpMod
  \/ OpLShift
  \/ OpRShift
  \/ Continue

Spec == Init /\ [][Next]_vars

(***************************************************************************)
(* The calls on UniqueStuff.                                               *)
(***************************************************************************)
UniqueContinue ==
  /\ ulast.op # "idle"
  /\ ulast' = UniqueIdle
  /\ UNCHANGED <<_units, ucls>>
  /\ UNCHANGED fvars
  /\ UNCHANGED rvars

UniqueTypes == {"UniqueStuff"}

(* t(units) *)
UniqueConstruct ==
  /\ ulast.op = "idle"
  /\ last.op = "idle"
  /\ units = <<>>
  /\ \E t \in UniqueTypes, x \in UnitInputs :
       UniqueCall("__init__", 0, 0, x, UniqueStuff__init__(_units, ucls, t, x))

UniqueAdd ==
  \E self \in UniqueInsts, x \in UnitInputs :
    UniqueCall("add", self, 0, x, UniqueStuff_add(_units, ucls, self, x))

UniqueRemove ==
  \E self \in UniqueInsts, x \in UnitInputs :
    UniqueCall("remove", self, 0, x, UniqueStuff_remove(_units, ucls, self, x))

UniqueClear ==
  \E self \in UniqueInsts :
    UniqueCall("clear", self, 0, NoUnits, UniqueStuff_clear(_units, ucls, self))

UniquePut ==
  \E self \in UniqueInsts, other \in UniqueOthers :
    UniqueCall("put", self, other, NoUnits, UniqueStuff_put(_units, ucls, self, other))

UniqueCombine ==
  \E self \in UniqueInsts, other \in UniqueOthers :
    UniqueCall("combine", self, other, NoUnits,
               UniqueStuff_combine(_units, ucls, self, other))

UniqueSeparate ==
  \E self \in UniqueInsts, x \in UnitInputs :
    UniqueCall("separate", self, 0, x, UniqueStuff_separate(_units, ucls, self, x))

(* The argument of divide is a number of pieces, an int or not. *)
UniqueDivide ==
  \E self \in UniqueInsts, x \in PieceInputs :
    UniqueCall("divide", self, 0, x, UniqueStuff_divide(_units, ucls, self, x))

NextUnique ==
  \/ UniqueConstruct
  \/ UniqueAdd
  \/ UniqueRemove
  \/ UniqueClear
  \/ UniquePut
  \/ UniqueCombine
  \/ UniqueSeparate
  \/ UniqueDivide
  \/ UniqueContinue

SpecUnique == Init /\ [][NextUnique]_vars

(* The property size, read on one holding of each kind of type. *)
SizeTypes == {"UniqueStuff", "SizedStuff", "PlainStuff"}

UniqueConstructSized ==
  /\ ulast.op = "idle"
  /\ last.op = "idle"
  /\ units = <<>>
  /\ _units = <<>>
  /\ \E t \in SizeTypes, x \in UnitInputs :
       UniqueCall("__init__", 0, 0, x, UniqueStuff__init__(_units, ucls, t, x))

UniqueSize ==
  \E self \in UniqueInsts :
    UniqueCall("size", self, 0, NoUnits, UniqueStuff_size(_units, ucls, self))

NextSize ==
  \/ UniqueConstructSized
  \/ UniqueAdd
  \/ UniqueRemove
  \/ UniqueSize
  \/ UniqueContinue

SpecSize == Init /\ [][NextSize]_vars

(* Transfers among holdings of one type that start out pairwise disjoint:
   every UniqueStuff(members) below is given members no other holding
   has. *)
Disjoint(ms) ==
  \A i, j \in DOMAIN ms : i # j => ms[i] \cap ms[j] = {}

DisjointHoldings ==
  {ms \in UNION {[1 .. n -> SUBSET Items] : n \in 1 .. MaxUniqueInst} :
     Disjoint(ms) /\ SumCard(ms) <= MaxMembers}

InitTransfers ==
  /\ units = <<>>
  /\ cls = <<>>
  /\ last = Idle
  /\ _units \in DisjointHoldings
  /\ ucls = [i \in DOMAIN _units |-> "UniqueStuff"]
  /\ ulast = UniqueIdle
  /\ _REGISTRY = [n \in Names |-> 0]
  /\ _REGISTRY_LOCK = 0
  /\ types = <<>>
  /\ th = [t \in Threads |-> ThreadIdle]

NextTransfers ==
  \/ UniquePut
  \/ UniqueCombine
  \/ UniqueSeparate
  \/ UniqueDivide
  \/ UniqueContinue

SpecTransfers == InitTransfers /\ [][NextTransfers]_vars

(* Both variants. *)
NextVariants == Next \/ NextUnique

SpecVariants == Init /\ [][NextVariants]_vars

(***************************************************************************)
(* Instances of several types.  The types are those of test_put_wrong_type: *)
(* IntegralStuff, WrongTypeStuff with the same class attributes, and       *)
(* WrongTypeSubtype derived from IntegralStuff.                            *)
(***************************************************************************)
MaxTypedInst == 2

IsolationTypes == {"IntegralStuff", "WrongTypeStuff", "WrongTypeSubtype"}

ConstructTyped ==
  /\ Len(units) < MaxTypedInst
  /\ \E t \in IsolationTypes, x \in Inputs :
       Call("__init__", t, 0, 0, x, FALSE, __init__(units, cls, t, x, FALSE))

NextIsolation ==
  \/ ConstructTyped
  \/ Combine
  \/ OpAdd
  \/ OpLShift
  \/ OpRShift
  \/ Continue

SpecIsolation == Init /\ [][NextIsolation]_vars

(***************************************************************************)
(* The example of the module's documentation: x = MyStuff(9) and           *)
(* y = MyStuff(18), on which stuff is separated and shifted.               *)
(***************************************************************************)
ExampleX == 9

ExampleY == 18

InitExample ==
  LET x == __init__(<<>>, <<>>, "MyStuff", Int_(ExampleX), FALSE)
      y == __init__(x.units, x.cls, "MyStuff", Int_(ExampleY), FALSE)
  IN /\ units = y.units
     /\ cls = y.cls
     /\ last = Idle
     /\ _units = <<>>
     /\ ucls = <<>>
     /\ ulast = UniqueIdle
     /\ _REGISTRY = [n \in Names |-> 0]
     /\ _REGISTRY_LOCK = 0
     /\ types = <<>>
     /\ th = [t \in Threads |-> ThreadIdle]

NextExample ==
  \/ OpSub
  \/ OpLShift
  \/ OpRShift
  \/ Continue

SpecExample == InitExample /\ [][NextExample]_vars

(***************************************************************************)
(* Type definitions and lookups in threads.                                *)
(***************************************************************************)
(* The classes a class statement can derive from: Stuff and every class
   whose statement succeeded. *)
Bases == {0} \cup {i \in 1 .. Len(types) : types[i].status = "ok"}

(* class X(b): min_amount = ...; granularity = ...; name = ... *)
DefineTypeFrom(Statements) ==
  \E t \in Threads, b \in Bases, c \in Statements :
    LET ma == c.min_amount
        g == c.granularity
        name == name_of(types, b, c.name)
        e == check_attributes(ma, g, name)
        new == Len(types) + 1
    IN /\ th[t].pc = "idle"
       /\ Len(types) < MaxTypes
       /\ IF e # "none"
          THEN /\ types' = Append(types, [name |-> name, status |-> "invalid",
                                          exc |-> e, min_amount |-> ma,
                                          granularity |-> g,
                                          own |-> c.name # Inherited])
               /\ th' = th
          ELSE IF name = None_
          THEN /\ types' = Append(types, [name |-> name, status |-> "ok",
                                          exc |-> "none", min_amount |-> ma,
                                          granularity |-> g,
                                          own |-> c.name # Inherited])
               /\ th' = th
          ELSE /\ types' = Append(types, [name |-> name, status |-> "defining",
                                          exc |-> "none", min_amount |-> ma,
                                          granularity |-> g,
                                          own |-> c.name # Inherited])
               /\ th' = [th EXCEPT ![t] = [pc |-> "acquire", typ |-> new,
                                           name |-> name.val, val |-> 0]]
       /\ UNCHANGED <<_REGISTRY, _REGISTRY_LOCK>>
       /\ UNCHANGED <<fvars, uvars>>

DefineType == DefineTypeFrom(ClassStatements)

(* The class statements whose min_amount and granularity pass the checks,
   with every name: the ones that come to the test of the name and, named,
   to the lock. *)
WellConfigured ==
  {c \in ClassStatements :
     c.min_amount = Int_(1) /\ c.granularity = Int_(1)}

DefineWellConfigured == DefineTypeFrom(WellConfigured)

(* with _REGISTRY_LOCK: *)
Acquire ==
  \E t \in Threads :
    /\ th[t].pc = "acquire"
    /\ can_acquire(_REGISTRY_LOCK, t)
    /\ _REGISTRY_LOCK' = t
    /\ th' = [th EXCEPT ![t].pc = "check"]
    /\ UNCHANGED <<_REGISTRY, types, fvars, uvars>>

(* The test `name in _REGISTRY` left out: the store follows the acquire. *)
Check_nothing ==
  \E t \in Threads :
    /\ th[t].pc = "check"
    /\ th' = [th EXCEPT ![t].pc = "insert"]
    /\ UNCHANGED <<_REGISTRY, _REGISTRY_LOCK, types, fvars, uvars>>

(* if name in _REGISTRY: *)
Check ==
  \E t \in Threads :
    /\ th[t].pc = "check"
    /\ th' = [th EXCEPT ![t].pc = IF _REGISTRY[th[t].name] # 0 THEN "raise"
                                   ELSE "insert"]
    /\ UNCHANGED <<_REGISTRY, _REGISTRY_LOCK, types, fvars, uvars>>

(* _REGISTRY[name] = self *)
Insert ==
  \E t \in Threads :
    /\ th[t].pc = "insert"
    /\ _REGISTRY' = [_REGISTRY EXCEPT ![th[t].name] = th[t].typ]
    /\ th' = [th EXCEPT ![t].pc = "exit"]
    /\ UNCHANGED <<_REGISTRY_LOCK, types, fvars, uvars>>

(* The with block of MetaStuff.__init__ releasing the lock only when it is
   left after the store. *)
Release_after_store_only ==
  \E t \in Threads :
    /\ th[t].pc \in {"raise", "exit"}
    /\ _REGISTRY_LOCK' = IF th[t].pc = "raise" THEN _REGISTRY_LOCK ELSE 0
    /\ types' = [types EXCEPT ![th[t].typ] =
                   IF th[t].pc = "raise"
                   THEN [@ EXCEPT !.status = "duplicate", !.exc = "TypeError"]
                   ELSE [@ EXCEPT !.status = "ok"]]
    /\ th' = [th EXCEPT ![t] = ThreadIdle]
    /\ UNCHANGED <<_REGISTRY, fvars, uvars>>

(* The end of the with block of MetaStuff.__init__, left by the raise or
   after the store: the lock is released and the class statement ends. *)
Release ==
  \E t \in Threads :
    /\ th[t].pc \in {"raise", "exit"}
    /\ _REGISTRY_LOCK' = 0
    /\ types' = [types EXCEPT ![th[t].typ] =
                   IF th[t].pc = "raise"
                   THEN [@ EXCEPT !.status = "duplicate", !.exc = "TypeError"]
                   ELSE [@ EXCEPT !.status = "ok"]]
    /\ th' = [th EXCEPT ![t] = ThreadIdle]
    /\ UNCHANGED <<_REGISTRY, fvars, uvars>>

(* get_stuff(name) *)
GetStuff ==
  \E t \in Threads, n \in Names :
    /\ th[t].pc = "idle"
    /\ th' = [th EXCEPT ![t] = [pc |-> "get_acquire", typ |-> 0, name |-> n,
                                val |-> 0]]
    /\ UNCHANGED <<_REGISTRY, _REGISTRY_LOCK, types, fvars, uvars>>

GetAcquire ==
  \E t \in Threads :
    /\ th[t].pc = "get_acquire"
    /\ can_acquire(_REGISTRY_LOCK, t)
    /\ _REGISTRY_LOCK' = t
    /\ th' = [th EXCEPT ![t].pc = "get_read"]
    /\ UNCHANGED <<_REGISTRY, types, fvars, uvars>>

(* _REGISTRY.get(name), the value of the return statement *)
GetRead ==
  \E t \in Threads :
    /\ th[t].pc = "get_read"
    /\ th' = [th EXCEPT ![t].pc = "get_exit",
                        ![t].val = get(_REGISTRY, th[t].name)]
    /\ UNCHANGED <<_REGISTRY, _REGISTRY_LOCK, types, fvars, uvars>>

(* The end of the with block of get_stuff: the lock is released and the
   value read is returned. *)
GetRelease ==
  \E t \in Threads :
    /\ th[t].pc = "get_exit"
    /\ _REGISTRY_LOCK' = 0
    /\ th' = [th EXCEPT ![t] = ThreadIdle]
    /\ UNCHANGED <<_REGISTRY, types, fvars, uvars>>

NextRegistry ==
  \/ DefineType
  \/ Acquire
  \/ Check
  \/ Insert
  \/ Release
  \/ GetStuff
  \/ GetAcquire
  \/ GetRead
  \/ GetRelease

SpecRegistry == Init /\ [][NextRegistry]_vars

(* Fair scheduling.  A step of the registry changes the record of the one
   thread that takes it.  A thread inside a with block is never blocked, so
   the scheduler running every runnable thread is weak fairness of its
   steps.  A thread waiting for the lock is runnable only while the lock is
   free, which the other threads can end and bring about again without
   end, so that the lock is handed to every waiting thread is strong
   fairness of the acquire. *)
InsideWith(t) ==
  /\ Check \/ Insert \/ Release \/ GetRead \/ GetRelease
  /\ th'[t] # th[t]

Acquiring(t) ==
  /\ Acquire \/ GetAcquire
  /\ th'[t] # th[t]

FairScheduling ==
  \A t \in Threads : WF_vars(InsideWith(t)) /\ SF_vars(Acquiring(t))

NextRegistryFair ==
  \/ DefineWellConfigured
  \/ Acquire
  \/ Check
  \/ Insert
  \/ Release
  \/ GetStuff
  \/ GetAcquire
  \/ GetRead
  \/ GetRelease

SpecRegistryFair == Init /\ [][NextRegistryFair]_vars /\ FairScheduling

(***************************************************************************)
(* The claims.  In each, u is the units self held before the call          *)
(* (last.pre[last.self]) and the new instances are those past Len(pre).    *)
(***************************************************************************)
Total(us) == SumSeq(us)

TransferOps == {"combine", "separate_units", "separate", "divide", "__add__",
                "__sub__", "__floordiv__", "__lshift__", "__rshift__"}

GrowOps == {"__init__", "add_units", "add"}

ShrinkOps == {"remove_units", "remove", "clear_units", "clear"}

(* Every instance but those of `touched` holds what it held before the call. *)
OthersUnchanged(touched) ==
  \A i \in 1 .. Len(last.pre) : i \in touched \/ units[i] = last.pre[i]

(* C1: conservation: a transfer operation (combine, separate, divide, the
   operators) leaves the sum of the units of all instances what it was; the
   sum grows only by construction and add, and shrinks only by remove and
   clear. *)
C1_Conservation ==
  last.op # "idle" =>
    /\ last.op \in TransferOps => Total(units) = Total(last.pre)
    /\ Total(units) > Total(last.pre) => last.op \in GrowOps
    /\ Total(units) < Total(last.pre) => last.op \in ShrinkOps

(* C1, the part of it the code keeps: the same, for every call whose two
   operands are not the same instance. *)
C1_ConservationDistinctOperands ==
  (last.op # "idle" /\ ~(last.other # 0 /\ last.other = last.self)) =>
    /\ last.op \in TransferOps => Total(units) = Total(last.pre)
    /\ Total(units) > Total(last.pre) => last.op \in GrowOps
    /\ Total(units) < Total(last.pre) => last.op \in ShrinkOps

(* C2: minimum invariant: every instance holds 0 units or at least the least
   allowed units of its type. *)
C2_MinimumInvariant ==
  \A i \in Insts : units[i] = 0 \/ units[i] >= least_allowed_units(cls[i])

(* The in-place transfer (put): Stuff.combine, and `s += o`, which Python
   evaluates as s = s.__add__(o). *)
PutOps == {"combine", "__add__"}

TwoOfOneType ==
  /\ last.other # 0
  /\ last.other # last.self
  /\ cls[last.self] = cls[last.other]

(* C3: put: for two instances a and b of one type, a.put(b) succeeds, leaves
   a with the units of both and b with 0, returns a itself, creates no
   instance and changes no other instance. *)
C3_Put ==
  (last.op \in PutOps /\ TwoOfOneType) =>
    /\ last.exc = "none"
    /\ units[last.self] = last.pre[last.self] + last.pre[last.other]
    /\ units[last.other] = 0
    /\ last.ret = <<last.self>>
    /\ Len(units) = Len(last.pre)
    /\ OthersUnchanged({last.self, last.other})

C3_Witness ==
  /\ last.op = "combine"
  /\ TwoOfOneType
  /\ last.pre[last.self] > 0
  /\ last.pre[last.other] > 0
  /\ units[last.self] = last.pre[last.self] + last.pre[last.other]

(* C4: combine: for two instances a and b of one type, a.combine(b) returns
   a new instance, neither a nor b, that holds the units of both, and leaves
   a and b with 0 units. *)
C4_CombineNew ==
  (last.op = "combine" /\ TwoOfOneType) =>
    /\ last.exc = "none"
    /\ Len(last.ret) = 1
    /\ last.ret[1] \notin 1 .. Len(last.pre)
    /\ units[last.ret[1]] = last.pre[last.self] + last.pre[last.other]
    /\ units[last.self] = 0
    /\ units[last.other] = 0

(* The units a separate call asks for: separate takes an amount. *)
SepUnits ==
  IF last.op = "separate_units" THEN last.arg.val
  ELSE last.arg.val \div granularity(cls[last.self])

(* C5: separate (effect): a separate of n units that succeeds on an instance
   of u units returns one new instance of the same type with n units and
   leaves the original with u - n; no other instance changes. *)
C5_SeparateEffect ==
  (last.op \in {"separate_units", "separate"} /\ last.exc = "none") =>
    /\ last.ret = <<Len(last.pre) + 1>>
    /\ Len(units) = Len(last.pre) + 1
    /\ cls[last.ret[1]] = cls[last.self]
    /\ units[last.ret[1]] = SepUnits
    /\ units[last.self] = last.pre[last.self] - SepUnits
    /\ OthersUnchanged({last.self})

C5_Witness ==
  /\ last.op = "separate_units"
  /\ last.exc = "none"
  /\ last.arg.val > 0
  /\ last.arg.val < last.pre[last.self]
  /\ units[last.ret[1]] = last.arg.val

(* C6: separate (acceptance): separate of an integer n on u units succeeds
   exactly when 0 <= n <= u, n is 0 or at least the minimum, and u - n is 0
   or at least the minimum; otherwise it fails with the range error. *)
C6_SeparateAcceptance ==
  (last.op = "separate_units" /\ last.arg.isint) =>
    LET n == last.arg.val
        u == last.pre[last.self]
        m == least_allowed_units(cls[last.self])
        accepted == /\ 0 <= n
                    /\ n <= u
                    /\ (n = 0 \/ n >= m)
                    /\ (u - n = 0 \/ u - n >= m)
    IN /\ (last.exc = "none") <=> accepted
       /\ last.exc \in {"none", "ValueError"}

(* The units of the i-th returned instance. *)
PieceUnits(i) == units[last.ret[i]]

(* C7: divide (distribution): a divide into p pieces that succeeds on u
   units returns p new instances, in order, the first u % p with
   floor(u / p) + 1 units and the others with floor(u / p); the pieces sum
   to u and the original is left with 0. *)
C7_DivideDistribution ==
  (last.op = "divide" /\ last.exc = "none") =>
    LET p == last.arg.val
        u == last.pre[last.self]
    IN /\ Len(last.ret) = p
       /\ Len(units) = Len(last.pre) + p
       /\ \A i \in 1 .. p :
            /\ last.ret[i] = Len(last.pre) + i
            /\ cls[last.ret[i]] = cls[last.self]
            /\ PieceUnits(i) = IF i <= u % p THEN (u \div p) + 1 ELSE u \div p
       /\ SumSeq([i \in 1 .. p |-> PieceUnits(i)]) = u
       /\ units[last.self] = 0
       /\ OthersUnchanged({last.self})

C7_Witness ==
  /\ last.op = "divide"
  /\ last.exc = "none"
  /\ last.arg.val >= 2
  /\ last.pre[last.self] % last.arg.val # 0
  /\ PieceUnits(1) = PieceUnits(last.arg.val) + 1

(* C8: divide (rejection): divide into an integer p fails with the range
   error when p <= 0 and when floor(u / p) is below the minimum; the
   instance keeps its units and no piece is made. *)
C8_DivideRejection ==
  (/\ last.op = "divide"
   /\ last.arg.isint
   /\ IF last.arg.val <= 0 THEN TRUE
      ELSE last.pre[last.self] \div last.arg.val < least_allowed_units(cls[last.self])) =>
    /\ last.exc = "ValueError"
    /\ units = last.pre
    /\ last.ret = <<>>

C8_Witness ==
  /\ last.op = "divide"
  /\ last.arg.isint
  /\ last.arg.val >= 2
  /\ last.pre[last.self] \div last.arg.val > 0
  /\ last.pre[last.self] \div last.arg.val < least_allowed_units(cls[last.self])
  /\ last.exc = "ValueError"
  /\ units = last.pre

(* C9: divide with fewer units than pieces: divide into p pieces on u < p
   units succeeds, the first u pieces with 1 unit and the others with 0, and
   leaves the original with 0. *)
C9_DivideFewerUnitsThanPieces ==
  (/\ last.op = "divide"
   /\ last.arg.isint
   /\ last.arg.val > 0
   /\ last.pre[last.self] < last.arg.val) =>
    /\ last.exc = "none"
    /\ Len(last.ret) = last.arg.val
    /\ \A i \in 1 .. last.arg.val :
         PieceUnits(i) = IF i <= last.pre[last.self] THEN 1 ELSE 0
    /\ units[last.self] = 0

(* C10: construction enforces the minimum: constructing with n units fails
   for 0 < n < minimum, and succeeds for n = 0 and n >= minimum with an
   instance of n units. *)
C10_ConstructMinimum ==
  (last.op = "__init__" /\ last.uu /\ last.arg.isint /\ last.arg.val >= 0) =>
    LET n == last.arg.val
        t == last.typ
    IN /\ (0 < n /\ n < least_allowed_units(t)) => last.exc # "none"
       /\ (n = 0 \/ n >= least_allowed_units(t)) =>
            (last.exc = "none" /\ units[last.ret[1]] = n)

(* The units a remove or add call asks for: remove and add take an amount. *)
ArgUnits ==
  IF last.uu THEN last.arg.val
  ELSE last.arg.val \div granularity(cls[last.self])

(* The argument is an int and, for the calls that take an amount, a multiple
   of the granularity. *)
ArgWhole ==
  /\ last.arg.isint
  /\ last.uu \/ last.arg.val % granularity(cls[last.self]) = 0

(* What a call returns for a count of units: the units themselves from the
   *_units methods, the amount from the others. *)
Returned(n) == IF last.uu THEN n ELSE n * granularity(cls[last.self])

RemoveAccepted ==
  LET n == ArgUnits
      u == last.pre[last.self]
  IN /\ 0 <= n
     /\ n <= u
     /\ (u - n = 0 \/ u - n >= least_allowed_units(cls[last.self]))

(* C11: remove (effect): for 0 <= n <= u with u - n either 0 or at least the
   minimum, remove of n succeeds, leaves u - n units and returns what is
   left. *)
C11_RemoveEffect ==
  (last.op \in {"remove_units", "remove"} /\ ArgWhole /\ RemoveAccepted) =>
    /\ last.exc = "none"
    /\ units[last.self] = last.pre[last.self] - ArgUnits
    /\ last.val = Returned(last.pre[last.self] - ArgUnits)
    /\ OthersUnchanged({last.self})

(* C11, the part of it the code keeps: the same for remove_units alone. *)
C11_RemoveUnitsEffect ==
  (last.op = "remove_units" /\ ArgWhole /\ RemoveAccepted) =>
    /\ last.exc = "none"
    /\ units[last.self] = last.pre[last.self] - ArgUnits
    /\ last.val = Returned(last.pre[last.self] - ArgUnits)
    /\ OthersUnchanged({last.self})

(* C12: remove (rejection): remove of n fails with the range error when
   n < 0, when n exceeds the units held and when u - n would lie between 1
   and the minimum - 1; the units stay what they were. *)
C12_RemoveRejection ==
  (last.op \in {"remove_units", "remove"} /\ ArgWhole /\ ~RemoveAccepted) =>
    /\ last.exc = "ValueError"
    /\ units = last.pre

(* C12, the part of it the code keeps: the same for remove_units alone. *)
C12_RemoveUnitsRejection ==
  (last.op = "remove_units" /\ ArgWhole /\ ~RemoveAccepted) =>
    /\ last.exc = "ValueError"
    /\ units = last.pre

(* C13: add: a non-negative integer d adds exactly d units and returns the
   new count; a negative d fails with the range error and a non-integer
   with the type error, the units staying what they were. *)
C13_Add ==
  (last.op \in {"add_units", "add"}) =>
    /\ ~last.arg.isint => (last.exc = "TypeError" /\ units = last.pre)
    /\ (last.arg.isint /\ last.arg.val < 0) =>
         (last.exc = "ValueError" /\ units = last.pre)
    /\ (ArgWhole /\ last.arg.val >= 0) =>
         /\ last.exc = "none"
         /\ units[last.self] = last.pre[last.self] + ArgUnits
         /\ last.val = Returned(units[last.self])
         /\ Len(units) = Len(last.pre)
         /\ OthersUnchanged({last.self})

C13_Witness ==
  /\ last.op = "add_units"
  /\ last.exc = "none"
  /\ last.arg.val > 0
  /\ last.pre[last.self] > 0
  /\ units[last.self] = last.pre[last.self] + last.arg.val

(* C14: clear: clear always succeeds, leaves the instance with 0 units and
   returns what it held before the call; no other instance changes. *)
C14_Clear ==
  (last.op \in {"clear_units", "clear"}) =>
    /\ last.exc = "none"
    /\ units[last.self] = 0
    /\ last.val = Returned(last.pre[last.self])
    /\ Len(units) = Len(last.pre)
    /\ OthersUnchanged({last.self})

C14_Witness ==
  /\ last.op = "clear"
  /\ last.pre[last.self] > 0
  /\ units[last.self] = 0
  /\ last.val = last.pre[last.self] * granularity(cls[last.self])

(* C15: type isolation: a put between operands of two different types,
   be they of the same configuration, a type and its subtype in either
   order, or a Stuff and a value that is no Stuff, fails with the type
   error and leaves both operands as they were. *)
C15_TypeIsolation ==
  (last.op \in PutOps /\ TypeOf(cls, last.self) # TypeOf(cls, last.other)) =>
    /\ last.exc = "TypeError"
    /\ units = last.pre
    /\ Len(cls) = Len(last.pre)

C15_Witness ==
  /\ last.op = "combine"
  /\ last.other # 0
  /\ cls[last.self] = "IntegralStuff"
  /\ cls[last.other] = "WrongTypeSubtype"
  /\ last.pre[last.self] > 0
  /\ last.pre[last.other] > 0
  /\ last.exc = "TypeError"

(***************************************************************************)
(* The claims on UniqueStuff.  The members of self before the call are     *)
(* ulast.pre[ulast.self]; the argument, as a set, is set(ulast.arg.val).   *)
(***************************************************************************)
UniqueOthersUnchanged(touched) ==
  /\ Len(_units) >= Len(ulast.pre)
  /\ \A i \in 1 .. Len(ulast.pre) : i \in touched \/ _units[i] = ulast.pre[i]

(* C19: unique add: add leaves the member set equal to the union of the
   previous members and the new ones, so that adding members already held
   changes nothing and {a,b} followed by {b,c} leaves {a,b,c}. *)
C19_UniqueAdd ==
  (ulast.op = "add" /\ ulast.arg.iter) =>
    /\ ulast.exc = "none"
    /\ _units[ulast.self] = ulast.pre[ulast.self] \cup set(ulast.arg.val)
    /\ (set(ulast.arg.val) \subseteq ulast.pre[ulast.self] => _units = ulast.pre)
    /\ Len(_units) = Len(ulast.pre)
    /\ UniqueOthersUnchanged({ulast.self})

(* add({2, 3}) on a holding of {1, 2} leaves {1, 2, 3} *)
C19_Witness ==
  /\ ulast.op = "add"
  /\ ulast.exc = "none"
  /\ ulast.pre[ulast.self] = {1, 2}
  /\ set(ulast.arg.val) = {2, 3}
  /\ _units[ulast.self] = {1, 2, 3}

(* C20: unique remove: remove fails with the range error whenever its
   argument is not a subset of the members, the members staying what they
   were, and leaves the set difference when it is a subset. *)
C20_UniqueRemove ==
  (ulast.op = "remove" /\ ulast.arg.iter) =>
    LET given == set(ulast.arg.val)
        held == ulast.pre[ulast.self]
    IN IF given \subseteq held
       THEN /\ ulast.exc = "none"
            /\ _units[ulast.self] = held \ given
            /\ UniqueOthersUnchanged({ulast.self})
       ELSE /\ ulast.exc = "ValueError"
            /\ _units = ulast.pre

(* C20, the part of it the code keeps: a subset is removed, and a proper
   superset of the members is rejected with nothing changed. *)
C20_UniqueRemoveSubsetOrSuperset ==
  (ulast.op = "remove" /\ ulast.arg.iter) =>
    LET given == set(ulast.arg.val)
        held == ulast.pre[ulast.self]
    IN /\ given \subseteq held =>
            /\ ulast.exc = "none"
            /\ _units[ulast.self] = held \ given
            /\ UniqueOthersUnchanged({ulast.self})
       /\ ProperSuperset(given, held) =>
            /\ ulast.exc = "ValueError"
            /\ _units = ulast.pre

(* C16: all-or-nothing: when a call on a fungible or a unique stuff fails,
   every instance holds exactly what it held before the call and no new
   instance has been made. *)
C16_AllOrNothing ==
  /\ (last.op # "idle" /\ last.exc # "none") =>
       (units = last.pre /\ Len(cls) = Len(last.pre))
  /\ (ulast.op # "idle" /\ ulast.exc # "none") =>
       (_units = ulast.pre /\ Len(ucls) = Len(ulast.pre))

(* a separation refused for what it would leave behind *)
C16_Witness ==
  /\ last.op = "separate_units"
  /\ last.exc = "ValueError"
  /\ last.arg.isint
  /\ last.arg.val >= least_allowed_units(cls[last.self])
  /\ last.arg.val < last.pre[last.self]
  /\ units = last.pre

(* a unique removal refused with members held *)
C16_WitnessUnique ==
  /\ ulast.op = "remove"
  /\ ulast.exc = "ValueError"
  /\ ulast.pre[ulast.self] # {}
  /\ _units = ulast.pre

(***************************************************************************)
(* The claims on the registry.                                             *)
(***************************************************************************)
(* The types whose definition under the name n succeeded, and those whose
   definition ended in the TypeError of the registration. *)
Defined(n) ==
  {i \in 1 .. Len(types) : types[i].name = Str_(n) /\ types[i].status = "ok"}

Refused(n) ==
  {i \in 1 .. Len(types) : types[i].name = Str_(n) /\ types[i].status = "duplicate"}

(* C17: registry uniqueness: of the type definitions that use one name, in
   sequence or concurrently, exactly one succeeds and every other fails,
   and the registry maps the name to the type whose definition succeeded. *)
C17_RegistryUniqueness ==
  \A n \in Names :
    /\ Cardinality(Defined(n)) <= 1
    /\ Refused(n) # {} => Cardinality(Defined(n)) = 1
    /\ \A i \in Defined(n) : _REGISTRY[n] = i
    /\ \A i \in Refused(n) : types[i].exc = "TypeError" /\ _REGISTRY[n] # i

(* of two definitions under one name the one that began second won *)
C17_Witness ==
  /\ Len(types) >= 2
  /\ types[1].name = Str_("A")
  /\ types[2].name = Str_("A")
  /\ types[1].status = "duplicate"
  /\ types[2].status = "ok"
  /\ _REGISTRY["A"] = 2

GetPcs == {"get_acquire", "get_read", "get_exit"}

(* C18: lookup: get_stuff never fails, returns the type defined under the
   name or None when there is none, and does not modify the registry. *)
C18_Lookup ==
  [][\A t \in Threads :
       (th[t].pc \in GetPcs /\ th'[t] # th[t]) =>
         /\ _REGISTRY' = _REGISTRY
         /\ th'[t].pc \in GetPcs \cup {"idle"}
         /\ th'[t].pc = "get_exit" =>
              IF Defined(th[t].name) = {} THEN th'[t].val = 0
              ELSE th'[t].val \in Defined(th[t].name)]_vars

C18_Witness ==
  \E t \in Threads :
    /\ th[t].pc = "get_exit"
    /\ th[t].val # 0
    /\ types[th[t].val].name = Str_(th[t].name)

(* C21: unique separate: separate fails with the range error whenever its
   argument is not a subset of the members, leaving the holding as it was
   and making no new instance; for a subset the holding loses exactly those
   members and the new instance returned holds exactly them. *)
C21_UniqueSeparate ==
  (ulast.op = "separate" /\ ulast.arg.iter) =>
    LET given == set(ulast.arg.val)
        held == ulast.pre[ulast.self]
    IN IF given \subseteq held
       THEN /\ ulast.exc = "none"
            /\ Len(_units) = Len(ulast.pre) + 1
            /\ Len(ulast.ret) = 1
            /\ _units[ulast.self] = held \ given
            /\ _units[ulast.ret[1]] = given
            /\ UniqueOthersUnchanged({ulast.self})
       ELSE /\ ulast.exc = "ValueError"
            /\ _units = ulast.pre

(* C21, the part of it the code keeps: a proper superset of the members is
   refused with the range error, and no separation changes a holding or
   makes an instance. *)
C21_UniqueSeparateRefused ==
  (ulast.op = "separate" /\ ulast.arg.iter) =>
    /\ ProperSuperset(set(ulast.arg.val), ulast.pre[ulast.self]) =>
         ulast.exc = "ValueError"
    /\ ulast.exc # "none"
    /\ _units = ulast.pre

(* Two distinct holdings of one type as the operands of the call. *)
TwoUniqueOfOneType ==
  /\ ulast.other # 0
  /\ ulast.other # ulast.self
  /\ ucls[ulast.self] = ucls[ulast.other]

UniquePutEffect ==
  /\ ulast.exc = "none"
  /\ Len(_units) = Len(ulast.pre)
  /\ _units[ulast.self] = ulast.pre[ulast.self] \cup ulast.pre[ulast.other]
  /\ _units[ulast.other] = {}
  /\ ulast.ret = <<ulast.self>>
  /\ UniqueOthersUnchanged({ulast.self, ulast.other})

(* C22: unique put and combine: for two holdings a and b of one type,
   a.put(b) leaves a with the union of the members, b empty, and returns a;
   a.combine(b) returns a new holding with the union and leaves a and b
   empty. *)
C22_UniquePutCombine ==
  /\ (ulast.op = "put" /\ TwoUniqueOfOneType) => UniquePutEffect
  /\ (ulast.op = "combine" /\ TwoUniqueOfOneType) =>
       /\ ulast.exc = "none"
       /\ Len(_units) = Len(ulast.pre) + 1
       /\ Len(ulast.ret) = 1
       /\ ulast.ret[1] > Len(ulast.pre)
       /\ _units[ulast.ret[1]] = ulast.pre[ulast.self] \cup ulast.pre[ulast.other]
       /\ _units[ulast.self] = {}
       /\ _units[ulast.other] = {}
       /\ UniqueOthersUnchanged({ulast.self, ulast.other})

(* C22, the part of it the code keeps: put. *)
C22_UniquePut ==
  (ulast.op = "put" /\ TwoUniqueOfOneType) => UniquePutEffect

(* The members of the i-th holding a call returned. *)
UniquePiece(i) == _units[ulast.ret[i]]

(* C23: unique divide: for a positive integer p, divide(p) on a holding of
   m members succeeds and returns p new holdings, pairwise disjoint, whose
   union is the members held, the first m % p of them with m \div p + 1
   members and the rest with m \div p; the holding itself is left empty. *)
C23_UniqueDivide ==
  (ulast.op = "divide" /\ ulast.arg.isint /\ ulast.arg.val > 0) =>
    LET p == ulast.arg.val
        held == ulast.pre[ulast.self]
        m == Cardinality(held)
    IN /\ ulast.exc = "none"
       /\ Len(ulast.ret) = p
       /\ Len(_units) = Len(ulast.pre) + p
       /\ \A i \in 1 .. p :
            /\ ulast.ret[i] > Len(ulast.pre)
            /\ Cardinality(UniquePiece(i)) = (m \div p) + (IF i <= m % p THEN 1 ELSE 0)
            /\ \A j \in 1 .. p : i # j => UniquePiece(i) \cap UniquePiece(j) = {}
       /\ UNION {UniquePiece(i) : i \in 1 .. p} = held
       /\ _units[ulast.self] = {}

(* C24: registry entries are permanent: once a name is registered to a
   type, no step of a type definition, successful or failed, nor of a
   lookup, removes the entry or replaces the type. *)
C24_EntriesPermanent ==
  [][\A n \in Names : _REGISTRY[n] # 0 => _REGISTRY'[n] = _REGISTRY[n]]_vars

(* a later definition under a registered name has been refused and the
   entry is the first type still *)
C24_Witness ==
  /\ Len(types) >= 2
  /\ types[1].name = Str_("B")
  /\ types[1].status = "ok"
  /\ types[2].name = Str_("B")
  /\ types[2].status = "duplicate"
  /\ _REGISTRY["B"] = 1

(* C24 for the calls on instances: none of them stores into the registry. *)
C24_InstanceOperations == [][_REGISTRY' = _REGISTRY]_vars

(* The configuration a class statement was given is invalid. *)
InvalidConfiguration(d) ==
  \/ ~d.min_amount.isint
  \/ ~d.granularity.isint
  \/ d.name.kind = "other"
  \/ d.min_amount.isint /\ d.min_amount.val < 1
  \/ d.granularity.isint /\ d.granularity.val < 1

(* C25: a type definition with an invalid configuration (a minimum or a
   granularity below 1 or no integer, a name that is no string) fails and
   is not registered; its name stays available: no definition is refused
   under a name unless a valid one holds it. *)
C25_InvalidConfiguration ==
  /\ \A i \in 1 .. Len(types) :
       InvalidConfiguration(types[i]) =>
         /\ types[i].status = "invalid"
         /\ types[i].exc \in {"TypeError", "ValueError"}
         /\ \A n \in Names : _REGISTRY[n] # i
  /\ \A n \in Names :
       /\ _REGISTRY[n] # 0 => ~InvalidConfiguration(types[_REGISTRY[n]])
       /\ Refused(n) # {} => Defined(n) # {}

(* a definition with a minimum of 0 under the name A failed and a later
   valid one under A succeeded *)
C25_Witness ==
  /\ Len(types) >= 2
  /\ types[1].name = Str_("A")
  /\ types[1].min_amount = Int_(0)
  /\ types[1].status = "invalid"
  /\ types[1].exc = "ValueError"
  /\ types[2].name = Str_("A")
  /\ types[2].status = "ok"
  /\ _REGISTRY["A"] = 2

(* What the unit-based method does on the heap before the call with the
   amount of the call divided by the granularity. *)
UnitsCounterpart ==
  LET cs0 == SubSeq(cls, 1, Len(last.pre))
      x == Int_(last.arg.val \div granularity(cls[last.self]))
  IN IF last.op = "add" THEN add_units(last.pre, cs0, last.self, x)
     ELSE IF last.op = "remove" THEN remove_units(last.pre, cs0, last.self, x)
     ELSE separate_units(last.pre, cs0, last.self, x)

AmountAgrees ==
  LET g == granularity(cls[last.self])
  IN IF last.arg.val % g = 0
     THEN /\ last.exc = UnitsCounterpart.exc
          /\ units = UnitsCounterpart.units
          /\ last.ret = UnitsCounterpart.ret
          /\ (last.exc = "none" /\ last.op # "separate") =>
               last.val = UnitsCounterpart.val * g
     ELSE /\ last.exc = "ValueError"
          /\ units = last.pre

(* C26: amount-based and unit-based operations agree: for an amount that
   is a multiple of the granularity g, add, remove and separate succeed or
   fail as add_units, remove_units and separate_units do with amount / g,
   leave the same units and return the corresponding amount; an amount that
   is no multiple of g is refused with the range error and nothing
   changes. *)
C26_AmountAgreesWithUnits ==
  (last.op \in {"add", "remove", "separate"} /\ last.arg.isint) => AmountAgrees

(* C26, the part of it the code keeps: add and separate. *)
C26_AddSeparateAgreeWithUnits ==
  (last.op \in {"add", "separate"} /\ last.arg.isint) => AmountAgrees

(* What s.divide(p) does on the heap before the call. *)
WouldDivide == divide(last.pre, cls, last.self, last.arg)

(* C27: can-divide agrees with divide: for a positive integer p, s % p is
   true exactly when s.divide(p) would succeed and false exactly when it
   would fail, and the test leaves the instance as it was; for p <= 0 both
   fail with the range error. *)
C27_CanDivide ==
  (last.op = "__mod__" /\ last.arg.isint) =>
    /\ units = last.pre
    /\ Len(cls) = Len(last.pre)
    /\ last.arg.val > 0 =>
         /\ last.exc = "none"
         /\ last.val \in {0, 1}
         /\ last.val = 1 <=> WouldDivide.exc = "none"
    /\ last.arg.val <= 0 =>
         /\ last.exc = "ValueError"
         /\ WouldDivide.exc = "ValueError"

(* the test is true with exactly the least units in every piece *)
C27_Witness ==
  /\ last.op = "__mod__"
  /\ last.arg.isint
  /\ last.arg.val > 1
  /\ last.exc = "none"
  /\ last.val = 1
  /\ last.pre[last.self] \div last.arg.val = least_allowed_units(cls[last.self])

(* the test is false with units held *)
C27_WitnessFalse ==
  /\ last.op = "__mod__"
  /\ last.arg.isint
  /\ last.arg.val > 0
  /\ last.exc = "none"
  /\ last.val = 0
  /\ last.pre[last.self] > 0

(* What the named method of an operator does on the heap before the call:
   combine for + and +=, separate for -, divide for / and //. *)
NamedMethod ==
  LET cs0 == SubSeq(cls, 1, Len(last.pre))
  IN IF last.op = "__add__" THEN combine(last.pre, cs0, last.self, last.other)
     ELSE IF last.op = "__sub__" THEN separate(last.pre, cs0, last.self, last.arg)
     ELSE divide(last.pre, cs0, last.self, last.arg)

SameAsNamedMethod ==
  /\ last.exc = NamedMethod.exc
  /\ units = NamedMethod.units
  /\ cls = NamedMethod.cls
  /\ last.ret = NamedMethod.ret

(* C28: operator forms equal the named methods: s += o and s + o have the
   effect, result and failure of the put s.combine(o), s - n those of
   s.separate(n) and s / p those of s.divide(p), the type error for an
   operand of the wrong type and the range error for one out of range
   included. *)
C28_OperatorsEqualMethods ==
  (last.op \in {"__add__", "__sub__", "__truediv__"}) => SameAsNamedMethod

(* C28, the part of it the code keeps: +, - and //. *)
C28_AddSubFloorDivEqualMethods ==
  (last.op \in {"__add__", "__sub__", "__floordiv__"}) => SameAsNamedMethod

(* C29: shift operators: for two distinct instances a and b of one type,
   a >> b leaves b with the units of both and a with 0 and returns b, and
   a << b leaves a with the units of both and b with 0 and returns a; in
   the example of the documentation, (y - 6) >> x on x = 9 and y = 18
   leaves x = 15 and y = 12. *)
C29_Shift ==
  /\ (last.op \in {"__rshift__", "__lshift__"} /\ TwoOfOneType) =>
       LET into == IF last.op = "__rshift__" THEN last.other ELSE last.self
           from == IF last.op = "__rshift__" THEN last.self ELSE last.other
       IN /\ last.exc = "none"
          /\ Len(units) = Len(last.pre)
          /\ units[into] = last.pre[last.self] + last.pre[last.other]
          /\ units[from] = 0
          /\ last.ret = <<into>>
          /\ OthersUnchanged({last.self, last.other})
  /\ (/\ last.op = "__rshift__"
      /\ last.self = 3
      /\ last.other = 1
      /\ amount(last.pre, cls, 1) = ExampleX
      /\ amount(last.pre, cls, 2) = ExampleY - 6
      /\ amount(last.pre, cls, 3) = 6) =>
       /\ amount(units, cls, 1) = 15
       /\ amount(units, cls, 2) = 12

(* (y - 6) >> x has been evaluated *)
C29_Witness ==
  /\ last.op = "__rshift__"
  /\ last.self = 3
  /\ last.other = 1
  /\ amount(last.pre, cls, 1) = ExampleX
  /\ amount(last.pre, cls, 2) = ExampleY - 6
  /\ amount(last.pre, cls, 3) = 6
  /\ last.ret = <<1>>
  /\ amount(units, cls, 1) = 15
  /\ amount(units, cls, 2) = 12

UniqueSizeEffect ==
  LET t == ucls[ulast.self]
      held == ulast.pre[ulast.self]
  IN /\ ulast.exc = "none"
     /\ _units = ulast.pre
     /\ ulast.val = IF unit_type(t) = "Sized" THEN SumSizes(held)
                    ELSE Cardinality(held) * unit_size(t)

(* C30: unique size: for a type whose members declare a size of their own,
   size is the sum of the sizes the members report; for every other type,
   one without a unit_type included, it is the number of members times
   unit_size; reading it never changes the members. *)
C30_UniqueSize == ulast.op = "size" => UniqueSizeEffect

(* C30, the part of it the code keeps: the types that have a unit_type. *)
C30_UniqueSizeWithUnitType ==
  (ulast.op = "size" /\ unit_type(ucls[ulast.self]) # "None") => UniqueSizeEffect

(* The instances a call leaves its units in: self and what it returned. *)
SelfAndReturned(self, ret) == {self} \cup {ret[i] : i \in DOMAIN ret}

RECURSIVE UnitsHeldBy(_, _)
UnitsHeldBy(us, S) ==
  IF S = {} THEN 0
  ELSE LET n == CHOOSE i \in S : TRUE
       IN us[n] + UnitsHeldBy(us, S \ {n})

AliasedTransfer ==
  /\ last.op \in {"combine", "__add__", "__lshift__", "__rshift__"}
  /\ last.other = last.self

UniqueAliasedTransfer ==
  /\ ulast.op \in {"put", "combine"}
  /\ ulast.other = ulast.self

(* C31: aliased operands neither create nor destroy stuff: when one
   instance a is both operands of a transfer, of the fungible or of the
   unique variant, a and the instances the call returned hold together
   what a held before the call. *)
C31_AliasedOperands ==
  /\ AliasedTransfer =>
       UnitsHeldBy(units, SelfAndReturned(last.self, last.ret))
         = last.pre[last.self]
  /\ UniqueAliasedTransfer =>
       UNION {_units[n] : n \in SelfAndReturned(ulast.self, ulast.ret)}
         = ulast.pre[ulast.self]

(* C31, the part of it the code keeps: an aliased transfer that raises
   leaves a as it was, and an aliased transfer of an empty instance has
   nothing to lose. *)
C31_AliasedOperandsRaisedOrEmpty ==
  /\ (AliasedTransfer /\ (last.exc # "none" \/ last.pre[last.self] = 0)) =>
       units = last.pre
  /\ (UniqueAliasedTransfer
        /\ (ulast.exc # "none" \/ ulast.pre[ulast.self] = {})) =>
       _units = ulast.pre

(* every member some holding has *)
AllMembers(ms) == UNION {ms[i] : i \in DOMAIN ms}

(* C32: unique conservation and exclusivity: from holdings of one type
   that are pairwise disjoint, every put, combine, separate and divide,
   accepted or rejected, leaves the holdings, the returned ones included,
   pairwise disjoint and their union what it was: no member appears or
   vanishes. *)
C32_UniqueConservation ==
  /\ Disjoint(_units)
  /\ ulast.op # "idle" => AllMembers(_units) = AllMembers(ulast.pre)

(* C32, the part of it the code keeps: the calls whose operands are two
   holdings, or one holding and an argument. *)
C32_UniqueConservationDistinctOperands ==
  /\ Disjoint(_units)
  /\ (ulast.op # "idle" /\ ulast.other # ulast.self) =>
       AllMembers(_units) = AllMembers(ulast.pre)

(* A thread holds the lock only between the acquire and the end of its
   with block. *)
LockHeldInsideWith ==
  \A t \in Threads :
    _REGISTRY_LOCK = t <=>
      th[t].pc \in {"check", "insert", "raise", "exit", "get_read", "get_exit"}

(* C33: the registry lock is released on every path: after a registration,
   one that fails because the name is taken included, and after a lookup
   the lock is free again, and under fair scheduling every registration or
   lookup a thread started completes: no thread waits for the lock
   forever. *)
C33_LockReleased ==
  /\ []LockHeldInsideWith
  /\ \A t \in Threads : (th[t].pc # "idle") ~> (th[t].pc = "idle")

(* a registration has failed on a taken name, and nothing holds the lock *)
C33_Witness ==
  /\ \E i \in DOMAIN types : types[i].status = "duplicate"
  /\ \A t \in Threads : th[t].pc = "idle"
  /\ _REGISTRY_LOCK = 0

(* Type i set no name of its own, its min_amount and granularity are valid,
   and its class statement has ended. *)
UnnamedDefinition(i) ==
  /\ ~types[i].own
  /\ ~InvalidConfiguration(types[i])
  /\ types[i].status # "defining"

NotRegistered(i) == \A n \in Names : _REGISTRY[n] # i

(* C34: unnamed subtypes do not touch the registry: the definition of a
   type that sets no name of its own succeeds whenever its minimum and its
   granularity are valid, and leaves the registry as it was, also when the
   type is derived from a parent registered under a name. *)
C34_UnnamedSubtypes ==
  \A i \in DOMAIN types :
    UnnamedDefinition(i) =>
      /\ types[i].status = "ok"
      /\ types[i].exc = "none"
      /\ NotRegistered(i)

(* C34, the part of it the code keeps: the unnamed subtype is never stored
   in the registry, and its definition succeeds when the parent has no
   name either. *)
C34_UnnamedSubtypesOfUnnamed ==
  \A i \in DOMAIN types :
    UnnamedDefinition(i) =>
      /\ NotRegistered(i)
      /\ types[i].name = None_ =>
           (types[i].status = "ok" /\ types[i].exc = "none")

====
